---- MODULE Spec2Model ----
\* Model of Sources/CFFmpegCLI/ffmpeg_wrapper.c: the in-process wrapper around
\* ffmpeg_main / ffprobe_main with log forwarding and stdout/stderr capture.
\*
\* The wrapper's own globals, the process descriptor table, the capture pipe,
\* the stdio buffer of stdout and every thread's position inside a wrapper
\* function are state.  The wrapped library (ffmpeg_main, ffprobe_main,
\* ffmpeg_reset, av_log_*) and the operating system are the environment: the
\* model records the calls the wrapper makes into them and lets them answer
\* with every result they can give.
EXTENDS Integers, Sequences, FiniteSets, TLC

\* ---------------------------------------------------------------- bounds
MaxCalls == 2        \* invocations of the four operations in one run
MaxOut   == 3        \* bytes a tool run prints
MaxBuf   == 2        \* largest output_buffer_size the caller passes
PipeCap  == 2        \* bytes a pipe holds while nobody reads it
StdioCap == 1        \* bytes the stdio buffer of stdout holds
NFd      == 11       \* size of the process descriptor table

\* ------------------------------------------------------- program constants
STDOUT_FILENO == 1
STDERR_FILENO == 2
DefaultLogLevel == 32

Threads     == {1, 2}
Serial      == {1}
Listeners   == {"L1", "L2"}
NULL        == "NULL"
Levels      == {16, 32}
ExitCodes   == {0, 1}
ArgVectors  == {"argsA", "argsB"}
Ops         == {"ffmpeg_execute", "ffprobe_execute",
                "ffmpeg_execute_with_output", "ffprobe_execute_with_output"}
CapturedOps == {"ffmpeg_execute_with_output", "ffprobe_execute_with_output"}
NUL         == 0     \* '\0'
Junk        == 99    \* a byte of the caller's buffer the wrapper never wrote

VARIABLES
  \* wrapper globals
  g_swift_log_func, g_log_level, g_logging_initialized,
  \* wrapped library, as far as the wrapper drives it
  av_callback, av_level, program_name, nInstall, nReset, nMain,
  \* operating system and libc
  fdtab, pipebuf, stdoutBuf, realOut,
  \* per thread: the running wrapper call
  pc, op, argv, bufNull, output_buffer_size, output_buffer, oob, mode,
  pipefd, stdout_fd, stderr_fd, exit_code, total_read, ret,
  toolOut, mainRet, mainArgs, cbLevel, cbFn,
  \* observation
  nInvoke, callNo, trace, fdAtEntry, listenerCall, registered

globals == <<g_swift_log_func, g_log_level, g_logging_initialized>>
library == <<av_callback, av_level, program_name, nInstall, nReset, nMain>>
os      == <<fdtab, pipebuf, stdoutBuf, realOut>>
request == <<op, argv, bufNull, output_buffer_size>>
locals  == <<pipefd, stdout_fd, stderr_fd, exit_code, total_read>>
tool    == <<toolOut, mainRet, mainArgs>>
logcb   == <<cbLevel, cbFn>>
observe == <<nInvoke, callNo, trace, fdAtEntry, listenerCall, registered>>
vars == <<globals, library, os, pc, request, output_buffer, oob, mode, locals,
          ret, tool, logcb, observe>>

\* ------------------------------------------------- descriptors and pipes
Closed       == [kind |-> "closed", id |-> 0]
File(n)      == [kind |-> "file", id |-> n]
ReadEnd(p)   == [kind |-> "r", id |-> p]
WriteEnd(p)  == [kind |-> "w", id |-> p]
Fds          == 0 .. (NFd - 1)

Min(S) == CHOOSE x \in S : \A y \in S : x <= y

IsOpen(tab, fd) == fd \in DOMAIN tab /\ tab[fd] # Closed
FreeFds(tab)    == {fd \in DOMAIN tab : tab[fd] = Closed}
HasReader(tab, p) == \E fd \in DOMAIN tab : tab[fd] = ReadEnd(p)
HasWriter(tab, p) == \E fd \in DOMAIN tab : tab[fd] = WriteEnd(p)

\* A pipe without a read end keeps no data, and every write end of such a
\* pipe behaves alike (EPIPE): the table shows it as the write end of pipe 0.
Reap(tab, pb) == [p \in DOMAIN pb |-> IF HasReader(tab, p) THEN pb[p] ELSE <<>>]
Broken(tab) ==
  [fd \in DOMAIN tab |->
     IF tab[fd].kind = "w" /\ ~HasReader(tab, tab[fd].id) THEN WriteEnd(0) ELSE tab[fd]]

\* pipe(pipefd): the two lowest free descriptors, or -1 (EMFILE / ENFILE).
pipe_ok(tab, fail) == ~fail /\ Cardinality(FreeFds(tab)) >= 2
pipe_r(tab) == Min(FreeFds(tab))
pipe_w(tab) == Min(FreeFds(tab) \ {pipe_r(tab)})

\* dup(fd): the lowest free descriptor, or -1 (EBADF / EMFILE).
dup_res(tab, fd, fail) ==
  IF fail \/ ~IsOpen(tab, fd) \/ FreeFds(tab) = {} THEN -1 ELSE Min(FreeFds(tab))
dup_tab(tab, fd, fail) ==
  IF dup_res(tab, fd, fail) = -1 THEN tab
  ELSE [tab EXCEPT ![dup_res(tab, fd, fail)] = tab[fd]]

\* dup2(oldfd, newfd): fails with EBADF and changes nothing when oldfd is
\* not an open descriptor (in particular when it is -1).
dup2_tab(tab, oldfd, newfd) ==
  IF ~IsOpen(tab, oldfd) THEN tab ELSE [tab EXCEPT ![newfd] = tab[oldfd]]

\* close(fd): fails with EBADF when fd is not open.
close_tab(tab, fd) ==
  IF ~IsOpen(tab, fd) THEN tab ELSE [tab EXCEPT ![fd] = Closed]

\* write(fd, byte) blocks while fd is the write end of a full pipe that
\* still has a read end.
WriteBlocks(tab, pb, fd) ==
  /\ tab[fd].kind = "w"
  /\ HasReader(tab, tab[fd].id)
  /\ Len(pb[tab[fd].id]) >= PipeCap

\* The pipes after write(fd, byte): a byte written to a pipe without a read
\* end (EPIPE) or to a descriptor that is not open for writing is lost.
WritePipes(tab, pb, fd, byte) ==
  IF tab[fd].kind = "w" /\ HasReader(tab, tab[fd].id)
  THEN [pb EXCEPT ![tab[fd].id] = Append(@, byte)]
  ELSE pb

\* The bytes that reached one of the process's real streams after write.
WriteReal(tab, ro, fd, byte) ==
  IF tab[fd].kind = "file" THEN ro \cup {byte} ELSE ro

\* ------------------------------------------------------ the caller's buffer
\* output_buffer[i] = v; a store outside the buffer changes no cell of it.
Store(buf, i, v) == IF i \in DOMAIN buf THEN [buf EXCEPT ![i] = v] ELSE buf

RECURSIVE StoreBytes(_, _, _)
StoreBytes(buf, i, bytes) ==
  IF bytes = <<>> THEN buf
  ELSE StoreBytes(Store(buf, i, Head(bytes)), i + 1, Tail(bytes))

\* strlen(output_buffer), or -1 when the buffer holds no null.
StrLen(buf) ==
  IF \E i \in DOMAIN buf : buf[i] = NUL
  THEN Min({i \in DOMAIN buf : buf[i] = NUL})
  ELSE -1

Take(s, k) == SubSeq(s, 1, k)
Drop(s, k) == SubSeq(s, k + 1, Len(s))

\* No listener is running.
NoCall == [fn |-> NULL, level |-> 0, threshold |-> 0]

\* ------------------------------------------------------------------ Init
Init ==
  /\ g_swift_log_func = NULL
  /\ g_log_level = DefaultLogLevel
  /\ g_logging_initialized = 0
  /\ av_callback = "av_log_default_callback"
  /\ av_level = -1       \* the wrapper has passed no level to av_log_set_level
  /\ program_name = ""
  /\ nInstall = 0 /\ nReset = 0 /\ nMain = 0
  /\ fdtab = [fd \in Fds |-> IF fd <= 2 THEN File(fd) ELSE Closed]
  /\ pipebuf = [p \in 1 .. MaxCalls |-> <<>>]
  /\ stdoutBuf = <<>>
  /\ realOut = {}
  /\ pc = [t \in Threads |-> "idle"]
  /\ op = [t \in Threads |-> "ffmpeg_execute"]
  /\ argv = [t \in Threads |-> "argsA"]
  /\ bufNull = [t \in Threads |-> TRUE]
  /\ output_buffer_size = [t \in Threads |-> 0]
  /\ output_buffer = [t \in Threads |-> <<>>]
  /\ oob = [t \in Threads |-> FALSE]
  /\ mode = [t \in Threads |-> "none"]
  /\ pipefd = [t \in Threads |-> <<-1, -1>>]
  /\ stdout_fd = [t \in Threads |-> -1]
  /\ stderr_fd = [t \in Threads |-> -1]
  /\ exit_code = [t \in Threads |-> 0]
  /\ total_read = [t \in Threads |-> 0]
  /\ ret = [t \in Threads |-> -1]
  /\ toolOut = [t \in Threads |-> 0]
  /\ mainRet = [t \in Threads |-> 0]
  /\ mainArgs = [t \in Threads |-> "none"]
  /\ cbLevel = [t \in Threads |-> 0]
  /\ cbFn = [t \in Threads |-> NULL]
  /\ nInvoke = 0
  /\ callNo = [t \in Threads |-> 0]
  /\ trace = [t \in Threads |-> <<>>]
  /\ fdAtEntry = [t \in Threads |-> [fd \in Fds |-> Closed]]
  /\ listenerCall = [t \in Threads |-> NoCall]
  /\ registered = NULL

\* ------------------------------------------------- helpers of the wrapper
\* Faulty variant: the captured probe operation calls ffmpeg_main.
EntryPoint_Copied(o) ==
  IF o \in {"ffmpeg_execute", "ffmpeg_execute_with_output",
            "ffprobe_execute_with_output"} THEN "ffmpeg" ELSE "ffprobe"

\* The entry point an operation calls (lines 83, 90, 122, 177).
EntryPoint(o) ==
  IF o \in {"ffmpeg_execute", "ffmpeg_execute_with_output"} THEN "ffmpeg" ELSE "ffprobe"

\* Faulty variant: the captured probe operation keeps the name "ffmpeg".
ProgramName_Copied(o) ==
  IF o \in {"ffmpeg_execute", "ffmpeg_execute_with_output",
            "ffprobe_execute_with_output"} THEN "ffmpeg" ELSE "ffprobe"

\* The name an operation passes to set_library_program_name (82, 89, 121, 176).
ProgramName(o) ==
  IF o \in {"ffmpeg_execute", "ffmpeg_execute_with_output"} THEN "ffmpeg" ELSE "ffprobe"

\* Faulty variant: the one-time flag is not tested.
NeedsSetup_Always(flag) == TRUE

\* if (g_logging_initialized) return;  (line 68)
NeedsSetup(flag) == flag = 0

\* Faulty variant: the buffer is not initialised before the pipe is created.
output_init_Skipped(buf) == buf

\* output_buffer[0] = '\0';  (lines 101, 156)
output_init(buf) == Store(buf, 0, NUL)

\* while (total_read < output_buffer_size - 1); the size is at least 1 here,
\* so the size_t subtraction does not wrap.
DrainMore(size, total) == total < size - 1

\* Faulty variant: read may fill the byte kept for the terminating null.
ReadCount_NoReserve(size, total) == size - total

\* The count passed to read: output_buffer_size - 1 - total_read.
ReadCount(size, total) == size - 1 - total

\* Faulty variant: ffmpeg_reset is not called.
reset_events_Skipped(tr) == tr

\* The events of the wrapped library a reset contributes to the call's trace.
reset_events(tr) == Append(tr, "reset")

\* The byte a tool run prints: it names the invocation and the stream and,
\* where the environment tells the bytes of a run apart, the number of bytes
\* the run has still to print (this one included).
Byte(t, stream, env) ==
  100 * callNo[t] + 10 * (IF env.ordered THEN toolOut[t] ELSE 0) + stream

\* The invocation that printed byte b.
CallOf(b) == b \div 100

Set(f, t, v) == [f EXCEPT ![t] = v]

\* ----------------------------------------------------- the public setters
\* Faulty variant: a null argument leaves the registered listener in place.
logger_store_KeepOnNull(old, f) == IF f = NULL THEN old ELSE f

\* g_swift_log_func = func;  (line 37): the argument replaces the old value.
logger_store(old, f) == f

\* ffmpeg_set_swift_logger (lines 36-38); registered is the argument of the
\* most recent call.
SetSwiftLogger(t, env) ==
  /\ pc[t] = "idle"
  /\ \E f \in env.listeners :
       /\ g_swift_log_func' = logger_store(g_swift_log_func, f)
       /\ registered' = f
  /\ UNCHANGED <<g_log_level, g_logging_initialized, library, os, pc, request,
                 output_buffer, oob, mode, locals, ret, tool, logcb,
                 nInvoke, callNo, trace, fdAtEntry, listenerCall>>

\* ffmpeg_set_log_level (lines 40-43)
SetLogLevel(t, env) ==
  /\ pc[t] = "idle"
  /\ \E l \in env.levels : g_log_level' = l /\ av_level' = l
  /\ UNCHANGED <<g_swift_log_func, g_logging_initialized, av_callback,
                 program_name, nInstall, nReset, nMain, os, pc, request,
                 output_buffer, oob, mode, locals, ret, tool, logcb, observe>>

\* ------------------------------------------------------ the environment
\* What the host passes: ffmpeg_execute takes no buffer; the captured
\* operations take a null pointer or a buffer of n bytes, n = 0 included, and
\* so does ffprobe_execute for a caller that follows the header's prototype
\* (ffmpeg_wrapper.h, line 39), which declares it with a buffer and a size.
AllInputs ==
  {in \in Ops \X ArgVectors \X BOOLEAN \X (0 .. MaxBuf) :
     /\ in[1] = "ffmpeg_execute" => (in[3] /\ in[4] = 0)
     /\ in[1] = "ffprobe_execute" => (in[3] <=> in[4] = 0)}

\* Every input, and pipe and dup may fail.
SerialEnv ==
  [inputs |-> AllInputs, faults |-> BOOLEAN, listeners |-> Listeners \cup {NULL},
   levels |-> Levels, out |-> MaxOut, ordered |-> FALSE, codes |-> ExitCodes]

\* Two threads: captured ffmpeg calls with a full-size buffer, no failing system
\* call, one byte of output for each tool run and exit code 0.
ConcEnv ==
  [inputs |-> {in \in AllInputs : in[1] = "ffmpeg_execute_with_output"
                                   /\ in[2] = "argsA" /\ ~in[3] /\ in[4] = MaxBuf},
   faults |-> {FALSE}, listeners |-> {NULL}, levels |-> {DefaultLogLevel},
   out |-> 1, ordered |-> FALSE, codes |-> {0}]

\* One thread, captured operations with a buffer of at least one byte only;
\* pipe and dup may fail, the library logs nothing, and every byte of a run
\* names its place in the run's output.
CapturedEnv ==
  [inputs |-> {in \in AllInputs : in[1] \in CapturedOps /\ ~in[3] /\ in[4] >= 1},
   faults |-> BOOLEAN, listeners |-> {NULL}, levels |-> {DefaultLogLevel},
   out |-> MaxOut, ordered |-> TRUE, codes |-> ExitCodes]

\* Two threads: uncaptured ffmpeg calls whose tool prints nothing and logs,
\* while the setters register listener L1 or NULL and set a level.
LogEnv ==
  [inputs |-> {in \in AllInputs : in[1] = "ffmpeg_execute" /\ in[2] = "argsA"},
   faults |-> {FALSE}, listeners |-> {"L1", NULL}, levels |-> Levels,
   out |-> 0, ordered |-> FALSE, codes |-> {0}]

\* ------------------------------------------------------ entering a call
\* The host calls one of the four operations.  An operation that is passed a
\* buffer gets a null pointer or a buffer of output_buffer_size bytes the
\* wrapper has not written yet; ffprobe_execute as defined (lines 86-91) takes
\* argc and argv only and never looks at the buffer its caller passed.
Invoke(t, env) ==
  /\ pc[t] = "idle"
  /\ nInvoke < MaxCalls
  /\ \E o \in Ops, a \in ArgVectors, isNull \in BOOLEAN, n \in 0 .. MaxBuf :
       /\ <<o, a, isNull, n>> \in env.inputs
       /\ op' = Set(op, t, o)
       /\ argv' = Set(argv, t, a)
       /\ bufNull' = Set(bufNull, t, isNull)
       /\ output_buffer_size' = Set(output_buffer_size, t, n)
       /\ output_buffer' = Set(output_buffer, t,
              IF isNull THEN <<>> ELSE [i \in 0 .. (n - 1) |-> Junk])
       /\ mode' = Set(mode, t, IF o \in CapturedOps THEN "with_output" ELSE "direct")
       /\ pc' = Set(pc, t, IF o \in CapturedOps THEN "check" ELSE "setup")
  /\ oob' = Set(oob, t, FALSE)
  /\ pipefd' = Set(pipefd, t, <<-1, -1>>)
  /\ stdout_fd' = Set(stdout_fd, t, -1)
  /\ stderr_fd' = Set(stderr_fd, t, -1)
  /\ exit_code' = Set(exit_code, t, 0)
  /\ total_read' = Set(total_read, t, 0)
  /\ toolOut' = Set(toolOut, t, 0)
  /\ mainRet' = Set(mainRet, t, 0)
  /\ mainArgs' = Set(mainArgs, t, "none")
  /\ nInvoke' = nInvoke + 1
  /\ callNo' = Set(callNo, t, nInvoke + 1)
  /\ trace' = Set(trace, t, <<>>)
  /\ fdAtEntry' = Set(fdAtEntry, t, fdtab)
  /\ ret' = Set(ret, t, -1)
  /\ realOut' = {}
  /\ UNCHANGED <<globals, library, fdtab, pipebuf, stdoutBuf, logcb, listenerCall,
                 registered>>

\* Faulty variant: a buffer of capacity 0 is taken for a usable buffer.
NoBuffer_NullOnly(isNull, size) == isNull

\* !output_buffer || output_buffer_size == 0   (lines 96, 151)
NoBuffer(isNull, size) == isNull \/ size = 0

\* if (!output_buffer || output_buffer_size == 0) return ffmpeg_execute(...);
\* output_buffer[0] = '\0';   (lines 96-101, 151-156)
CheckBuffer(t) ==
  /\ pc[t] = "check"
  /\ IF NoBuffer(bufNull[t], output_buffer_size[t])
     THEN /\ mode' = Set(mode, t, "nobuf")
          /\ pc' = Set(pc, t, "setup")
          /\ UNCHANGED <<output_buffer, oob>>
     ELSE /\ output_buffer' = Set(output_buffer, t, output_init(output_buffer[t]))
          /\ oob' = Set(oob, t, oob[t] \/ 0 \notin DOMAIN output_buffer[t])
          /\ pc' = Set(pc, t, "pipe")
          /\ UNCHANGED mode
  /\ UNCHANGED <<globals, library, os, request, locals, ret, tool, logcb, observe>>

\* if (pipe(pipefd) < 0) return ffmpeg_execute(...);   (lines 104-107, 159-162)
CreatePipe(t, env) ==
  /\ pc[t] = "pipe"
  /\ \E fail \in env.faults :
       IF pipe_ok(fdtab, fail)
       THEN /\ pipefd' = Set(pipefd, t, <<pipe_r(fdtab), pipe_w(fdtab)>>)
            /\ fdtab' = [fdtab EXCEPT ![pipe_r(fdtab)] = ReadEnd(callNo[t]),
                                      ![pipe_w(fdtab)] = WriteEnd(callNo[t])]
            /\ mode' = Set(mode, t, "captured")
            /\ pc' = Set(pc, t, "dup_out")
       ELSE /\ mode' = Set(mode, t, "nopipe")
            /\ pc' = Set(pc, t, "setup")
            /\ UNCHANGED <<pipefd, fdtab>>
  /\ UNCHANGED <<globals, library, pipebuf, stdoutBuf, realOut, request,
                 output_buffer, oob, stdout_fd, stderr_fd, exit_code, total_read,
                 ret, tool, logcb, observe>>

\* int stdout_fd = dup(STDOUT_FILENO);   (lines 110, 165)
SaveStdout(t, env) ==
  /\ pc[t] = "dup_out"
  /\ \E fail \in env.faults :
       /\ stdout_fd' = Set(stdout_fd, t, dup_res(fdtab, STDOUT_FILENO, fail))
       /\ fdtab' = dup_tab(fdtab, STDOUT_FILENO, fail)
  /\ pc' = Set(pc, t, "dup_err")
  /\ UNCHANGED <<globals, library, pipebuf, stdoutBuf, realOut, request,
                 output_buffer, oob, mode, pipefd, stderr_fd, exit_code,
                 total_read, ret, tool, logcb, observe>>

\* int stderr_fd = dup(STDERR_FILENO);   (lines 111, 166)
SaveStderr(t, env) ==
  /\ pc[t] = "dup_err"
  /\ \E fail \in env.faults :
       /\ stderr_fd' = Set(stderr_fd, t, dup_res(fdtab, STDERR_FILENO, fail))
       /\ fdtab' = dup_tab(fdtab, STDERR_FILENO, fail)
  /\ pc' = Set(pc, t, "redir_out")
  /\ UNCHANGED <<globals, library, pipebuf, stdoutBuf, realOut, request,
                 output_buffer, oob, mode, pipefd, stdout_fd, exit_code,
                 total_read, ret, tool, logcb, observe>>

\* A step that only replaces the descriptor table.
FdStep(t, tab, next) ==
  /\ fdtab' = Broken(tab)
  /\ pipebuf' = Reap(tab, pipebuf)
  /\ pc' = Set(pc, t, next)
  /\ UNCHANGED <<globals, library, stdoutBuf, realOut, request, output_buffer,
                 oob, mode, locals, ret, tool, logcb, observe>>

\* dup2(pipefd[1], STDOUT_FILENO);   (lines 114, 169)
RedirectStdout(t) ==
  /\ pc[t] = "redir_out"
  /\ FdStep(t, dup2_tab(fdtab, pipefd[t][2], STDOUT_FILENO), "redir_err")

\* dup2(pipefd[1], STDERR_FILENO);   (lines 115, 170)
RedirectStderr(t) ==
  /\ pc[t] = "redir_err"
  /\ FdStep(t, dup2_tab(fdtab, pipefd[t][2], STDERR_FILENO), "close_w")

\* Faulty variant: the read end is closed in place of the write end.
WriteEndFd_ReadEnd(pfd) == pfd[1]

\* pipefd[1], the descriptor of the write end; the model counts from 1.
WriteEndFd(pfd) == pfd[2]

\* close(pipefd[1]);   (lines 116, 171)
CloseWriteEnd(t) ==
  /\ pc[t] = "close_w"
  /\ FdStep(t, close_tab(fdtab, WriteEndFd(pipefd[t])), "setup")

\* ------------------------------------------------ the reentry sequence
\* Faulty variant: the one-time setup installs the default level.
SetupLevel_Default(stored) == DefaultLogLevel

\* av_log_set_level(g_log_level);  (line 74): the level the setup installs.
SetupLevel(stored) == stored

\* ffmpeg_setup_logging_if_needed (lines 67-75), called at 80, 87, 119, 174
SetupLogging(t) ==
  /\ pc[t] = "setup"
  /\ IF NeedsSetup(g_logging_initialized)
     THEN /\ g_logging_initialized' = 1
          /\ av_callback' = "ffmpeg_log_callback"
          /\ av_level' = SetupLevel(g_log_level)
          /\ nInstall' = nInstall + 1
          /\ trace' = Set(trace, t, trace[t] \o <<"setup", "install">>)
     ELSE /\ trace' = Set(trace, t, Append(trace[t], "setup"))
          /\ UNCHANGED <<g_logging_initialized, av_callback, av_level, nInstall>>
  /\ pc' = Set(pc, t, "reset")
  /\ UNCHANGED <<g_swift_log_func, g_log_level, program_name, nReset, nMain, os,
                 request, output_buffer, oob, mode, locals, ret, tool, logcb,
                 nInvoke, callNo, fdAtEntry, listenerCall, registered>>

\* ffmpeg_reset();   (lines 81, 88, 120, 175)
Reset(t) ==
  /\ pc[t] = "reset"
  /\ trace' = Set(trace, t, reset_events(trace[t]))
  /\ nReset' = nReset + (Len(trace'[t]) - Len(trace[t]))
  /\ pc' = Set(pc, t, "name")
  /\ UNCHANGED <<globals, av_callback, av_level, program_name, nInstall, nMain,
                 os, request, output_buffer, oob, mode, locals, ret, tool, logcb,
                 nInvoke, callNo, fdAtEntry, listenerCall, registered>>

\* set_library_program_name("ffmpeg" / "ffprobe");   (lines 82, 89, 121, 176)
SetProgramName(t) ==
  /\ pc[t] = "name"
  /\ program_name' = ProgramName(op[t])
  /\ trace' = Set(trace, t, Append(trace[t], "name"))
  /\ pc' = Set(pc, t, "call_main")
  /\ UNCHANGED <<globals, av_callback, av_level, nInstall, nReset, nMain, os,
                 request, output_buffer, oob, mode, locals, ret, tool, logcb,
                 nInvoke, callNo, fdAtEntry, listenerCall, registered>>

\* ffmpeg_main(argc, argv) / ffprobe_main(argc, argv) is entered
\* (lines 83, 90, 122, 177).
EnterMain(t, env) ==
  /\ pc[t] = "call_main"
  /\ nMain' = nMain + 1
  /\ trace' = Set(trace, t, Append(trace[t],
                 IF EntryPoint(op[t]) = "ffmpeg" THEN "ffmpeg_main" ELSE "ffprobe_main"))
  /\ mainArgs' = Set(mainArgs, t, argv[t])
  /\ toolOut' = Set(toolOut, t, env.out)
  /\ pc' = Set(pc, t, "main")
  /\ UNCHANGED <<globals, av_callback, av_level, program_name, nInstall, nReset,
                 os, request, output_buffer, oob, mode, locals, ret, mainRet,
                 logcb, nInvoke, callNo, fdAtEntry, listenerCall, registered>>

\* ------------------------------------------- the tool while it runs
\* The tool prints a byte to stdout: it goes to the stdio buffer of stdout,
\* which stdio writes out first when it is full.
ToolPrintStdout(t, env) ==
  /\ pc[t] = "main"
  /\ toolOut[t] > 0
  /\ Len(stdoutBuf) < StdioCap
  /\ toolOut' = Set(toolOut, t, toolOut[t] - 1)
  /\ stdoutBuf' = Append(stdoutBuf, Byte(t, STDOUT_FILENO, env))
  /\ UNCHANGED <<globals, library, fdtab, pipebuf, realOut, pc, request,
                 output_buffer, oob, mode, locals, ret, mainRet, mainArgs,
                 logcb, observe>>

\* The tool prints a byte to stderr, which is unbuffered: write(2, byte).
ToolPrintStderr(t, env) ==
  /\ pc[t] = "main"
  /\ toolOut[t] > 0
  /\ ~WriteBlocks(fdtab, pipebuf, STDERR_FILENO)
  /\ toolOut' = Set(toolOut, t, toolOut[t] - 1)
  /\ pipebuf' = WritePipes(fdtab, pipebuf, STDERR_FILENO, Byte(t, STDERR_FILENO, env))
  /\ realOut' = WriteReal(fdtab, realOut, STDERR_FILENO, Byte(t, STDERR_FILENO, env))
  /\ UNCHANGED <<globals, library, fdtab, stdoutBuf, pc, request, output_buffer,
                 oob, mode, locals, ret, mainRet, mainArgs, logcb, observe>>

\* stdio writes the oldest buffered byte of stdout: write(1, byte).  It does so
\* when the buffer fills, at a newline on a terminal, or when the tool flushes.
StdioWrite(t) ==
  /\ pc[t] = "main"
  /\ stdoutBuf # <<>>
  /\ ~WriteBlocks(fdtab, pipebuf, STDOUT_FILENO)
  /\ stdoutBuf' = Tail(stdoutBuf)
  /\ pipebuf' = WritePipes(fdtab, pipebuf, STDOUT_FILENO, Head(stdoutBuf))
  /\ realOut' = WriteReal(fdtab, realOut, STDOUT_FILENO, Head(stdoutBuf))
  /\ UNCHANGED <<globals, library, fdtab, pc, request, output_buffer, oob, mode,
                 locals, ret, tool, logcb, observe>>

\* The library hands a log record to the installed callback.  av_log calls a
\* callback set with av_log_set_callback for every record, whatever its level.
ToolLog(t, env) ==
  /\ pc[t] = "main"
  /\ av_callback = "ffmpeg_log_callback"
  /\ \E l \in env.levels : cbLevel' = Set(cbLevel, t, l)
  /\ pc' = Set(pc, t, "cb_check")
  /\ UNCHANGED <<globals, library, os, request, output_buffer, oob, mode, locals,
                 ret, tool, cbFn, observe>>

\* ffmpeg_log_callback: if (!g_swift_log_func) return;   (lines 47-52)
LogCallbackCheck(t) ==
  /\ pc[t] = "cb_check"
  /\ IF g_swift_log_func = NULL
     THEN /\ pc' = Set(pc, t, "main")
          /\ cbLevel' = Set(cbLevel, t, 0)
          /\ UNCHANGED cbFn
     ELSE /\ pc' = Set(pc, t, "cb_call")
          /\ cbFn' = Set(cbFn, t, g_swift_log_func)
          /\ UNCHANGED cbLevel
  /\ UNCHANGED <<globals, library, os, request, output_buffer, oob, mode, locals,
                 ret, tool, observe>>

\* ffmpeg_log_callback: g_swift_log_func(level, buffer);   (lines 54-60)
\* The global is read without synchronisation: the call goes through the value
\* the check read or through the value the global holds now.
LogCallbackForward(t) ==
  /\ pc[t] = "cb_call"
  /\ \E fn \in {cbFn[t], g_swift_log_func} :
       listenerCall' = Set(listenerCall, t,
           [fn |-> fn, level |-> cbLevel[t], threshold |-> g_log_level])
  /\ pc' = Set(pc, t, "listener")
  /\ UNCHANGED <<globals, library, os, request, output_buffer, oob, mode, locals,
                 ret, tool, logcb, nInvoke, callNo, trace, fdAtEntry, registered>>

\* The listener returns, then ffmpeg_log_callback returns to the library
\* (line 61).
ListenerReturn(t) ==
  /\ pc[t] = "listener"
  /\ listenerCall' = Set(listenerCall, t, NoCall)
  /\ cbLevel' = Set(cbLevel, t, 0)
  /\ cbFn' = Set(cbFn, t, NULL)
  /\ pc' = Set(pc, t, "main")
  /\ UNCHANGED <<globals, library, os, request, output_buffer, oob, mode, locals,
                 ret, tool, nInvoke, callNo, trace, fdAtEntry, registered>>

\* The entry point returns its exit code: ffmpeg_execute returns it to its
\* caller (lines 83, 90, 97, 106), the captured path keeps it (lines 122, 177).
ToolReturn(t, env) ==
  /\ pc[t] = "main"
  /\ \E code \in env.codes :
       /\ mainRet' = Set(mainRet, t, code)
       /\ IF mode[t] = "captured"
          THEN /\ exit_code' = Set(exit_code, t, code)
               /\ pc' = Set(pc, t, "flush")
               /\ UNCHANGED ret
          ELSE /\ ret' = Set(ret, t, code)
               /\ pc' = Set(pc, t, "idle")
               /\ UNCHANGED exit_code
  /\ UNCHANGED <<globals, library, os, request, output_buffer, oob, mode, pipefd,
                 stdout_fd, stderr_fd, total_read, toolOut, mainArgs,
                 logcb, observe>>

\* ------------------------------------------------ restoring and draining
\* fflush(stdout); fflush(stderr);   (lines 125-126, 180-181)
Flush(t) ==
  /\ pc[t] = "flush"
  /\ IF stdoutBuf = <<>>
     THEN /\ pc' = Set(pc, t, "restore_out")
          /\ UNCHANGED <<stdoutBuf, pipebuf, realOut>>
     ELSE /\ ~WriteBlocks(fdtab, pipebuf, STDOUT_FILENO)
          /\ stdoutBuf' = Tail(stdoutBuf)
          /\ pipebuf' = WritePipes(fdtab, pipebuf, STDOUT_FILENO, Head(stdoutBuf))
          /\ realOut' = WriteReal(fdtab, realOut, STDOUT_FILENO, Head(stdoutBuf))
          /\ UNCHANGED pc
  /\ UNCHANGED <<globals, library, fdtab, request, output_buffer, oob, mode,
                 locals, ret, tool, logcb, observe>>

\* dup2(stdout_fd, STDOUT_FILENO);   (lines 127, 182)
RestoreStdout(t) ==
  /\ pc[t] = "restore_out"
  /\ FdStep(t, dup2_tab(fdtab, stdout_fd[t], STDOUT_FILENO), "restore_err")

\* dup2(stderr_fd, STDERR_FILENO);   (lines 128, 183)
RestoreStderr(t) ==
  /\ pc[t] = "restore_err"
  /\ FdStep(t, dup2_tab(fdtab, stderr_fd[t], STDERR_FILENO), "close_out")

\* close(stdout_fd);   (lines 129, 184)
CloseSavedStdout(t) ==
  /\ pc[t] = "close_out"
  /\ FdStep(t, close_tab(fdtab, stdout_fd[t]), "close_err")

\* close(stderr_fd);   (lines 130, 185)
CloseSavedStderr(t) ==
  /\ pc[t] = "close_err"
  /\ FdStep(t, close_tab(fdtab, stderr_fd[t]), "drain")

\* One turn of the read loop (lines 133-139, 188-194): read blocks while the
\* pipe is empty and a write end of it is open, returns 0 at end of file and
\* -1 when pipefd[0] is no read end.
DrainRead(t) ==
  /\ pc[t] = "drain"
  /\ DrainMore(output_buffer_size[t], total_read[t])
  /\ fdtab[pipefd[t][1]].kind = "r"
  /\ pipebuf[fdtab[pipefd[t][1]].id] # <<>>
  /\ LET p == fdtab[pipefd[t][1]].id IN
       \E k \in 1 .. Len(pipebuf[p]) :
         /\ k <= ReadCount(output_buffer_size[t], total_read[t])
         /\ output_buffer' = Set(output_buffer, t,
                StoreBytes(output_buffer[t], total_read[t], Take(pipebuf[p], k)))
         /\ oob' = Set(oob, t, oob[t] \/ total_read[t] + k > output_buffer_size[t])
         /\ total_read' = Set(total_read, t, total_read[t] + k)
         /\ pipebuf' = [pipebuf EXCEPT ![p] = Drop(@, k)]
  /\ UNCHANGED <<globals, library, fdtab, stdoutBuf, realOut, pc, request, mode,
                 pipefd, stdout_fd, stderr_fd, exit_code, ret, tool, logcb, observe>>

\* The loop ends (the buffer is full, or read returned 0 or -1) and
\* output_buffer[total_read] = '\0';   (lines 135-140, 190-195)
DrainEnd(t) ==
  /\ pc[t] = "drain"
  /\ \/ ~DrainMore(output_buffer_size[t], total_read[t])
     \/ fdtab[pipefd[t][1]].kind # "r"
     \/ /\ fdtab[pipefd[t][1]].kind = "r"
        /\ pipebuf[fdtab[pipefd[t][1]].id] = <<>>
        /\ ~HasWriter(fdtab, fdtab[pipefd[t][1]].id)
  /\ output_buffer' = Set(output_buffer, t, Store(output_buffer[t], total_read[t], NUL))
  /\ oob' = Set(oob, t, oob[t] \/ total_read[t] \notin DOMAIN output_buffer[t])
  /\ pc' = Set(pc, t, "close_r")
  /\ UNCHANGED <<globals, library, os, request, mode, locals, ret, tool, logcb,
                 observe>>

\* close(pipefd[0]); return exit_code;   (lines 143-145, 198-200)
CloseReadEnd(t) ==
  /\ pc[t] = "close_r"
  /\ fdtab' = Broken(close_tab(fdtab, pipefd[t][1]))
  /\ pipebuf' = Reap(fdtab', pipebuf)
  /\ ret' = Set(ret, t, exit_code[t])
  /\ pc' = Set(pc, t, "idle")
  /\ UNCHANGED <<globals, library, stdoutBuf, realOut, request, output_buffer,
                 oob, mode, locals, tool, logcb, observe>>

\* ------------------------------------------------------- specifications
\* The steps of the four operations and of the tool's output.
CallStep(t, env) ==
  \/ Invoke(t, env)
  \/ CheckBuffer(t) \/ CreatePipe(t, env) \/ SaveStdout(t, env) \/ SaveStderr(t, env)
  \/ RedirectStdout(t) \/ RedirectStderr(t) \/ CloseWriteEnd(t)
  \/ SetupLogging(t) \/ Reset(t) \/ SetProgramName(t) \/ EnterMain(t, env)
  \/ ToolPrintStdout(t, env) \/ ToolPrintStderr(t, env) \/ StdioWrite(t) \/ ToolReturn(t, env)
  \/ Flush(t) \/ RestoreStdout(t) \/ RestoreStderr(t)
  \/ CloseSavedStdout(t) \/ CloseSavedStderr(t)
  \/ DrainRead(t) \/ DrainEnd(t) \/ CloseReadEnd(t)

\* The setters and the path of a log record.
LogStep(t, env) ==
  \/ SetSwiftLogger(t, env) \/ SetLogLevel(t, env) \/ ToolLog(t, env)
  \/ LogCallbackCheck(t) \/ LogCallbackForward(t) \/ ListenerReturn(t)

\* One thread calls the wrapper: every call runs alone.
Next == \E t \in Serial : CallStep(t, SerialEnv) \/ LogStep(t, SerialEnv)
Spec == Init /\ [][Next]_vars

\* Two threads call the captured operations without any agreement between
\* them; the library logs nothing and nobody calls the setters.
NextConc == \E t \in Threads : CallStep(t, ConcEnv)
SpecConc == Init /\ [][NextConc]_vars

\* One thread calls the captured operations only, each with a buffer.
NextCaptured == \E t \in Serial : CallStep(t, CapturedEnv)
SpecCaptured == Init /\ [][NextCaptured]_vars

\* The steps of an uncaptured operation whose tool prints nothing.
DirectStep(t, env) ==
  \/ Invoke(t, env)
  \/ SetupLogging(t) \/ Reset(t) \/ SetProgramName(t) \/ EnterMain(t, env)
  \/ ToolReturn(t, env)

\* Two threads: each runs uncaptured calls whose tool logs, or calls a setter
\* while the other is inside the log callback.
NextLog == \E t \in Threads : DirectStep(t, LogEnv) \/ LogStep(t, LogEnv)
SpecLog == Init /\ [][NextLog]_vars

\* ================================================================ claims
\* The call of thread t has returned.
Returned(t) == pc[t] = "idle" /\ mode[t] # "none"

\* The positions of trace tr at which an entry point was entered.
MainEvents(tr) == {i \in 1 .. Len(tr) : tr[i] \in {"ffmpeg_main", "ffprobe_main"}}

Count(tr, e) == Cardinality({i \in 1 .. Len(tr) : tr[i] = e})

\* The entry point each operation is documented to run.
Documented(o) ==
  IF o \in {"ffmpeg_execute", "ffmpeg_execute_with_output"}
  THEN "ffmpeg_main" ELSE "ffprobe_main"

\* Thread t is blocked in fflush(stdout): the pipe is full and only t reads it.
BlockedInFlush(t) ==
  /\ pc[t] = "flush"
  /\ stdoutBuf # <<>>
  /\ WriteBlocks(fdtab, pipebuf, STDOUT_FILENO)

\* Thread t is blocked in read: the pipe is empty and a write end is open.
BlockedInDrain(t) ==
  /\ pc[t] = "drain"
  /\ DrainMore(output_buffer_size[t], total_read[t])
  /\ fdtab[pipefd[t][1]].kind = "r"
  /\ pipebuf[fdtab[pipefd[t][1]].id] = <<>>
  /\ HasWriter(fdtab, fdtab[pipefd[t][1]].id)

\* Thread t has redirected a standard stream and not yet restored both.
Redirected(t) ==
  /\ mode[t] = "captured"
  /\ pc[t] \in {"redir_err", "close_w", "setup", "reset", "name", "call_main",
               "main", "flush", "restore_out", "restore_err"}

\* C1: when a captured invocation that ran alone returns, descriptors 1 and 2
\* refer to the targets they referred to when the call was entered, whatever
\* the exit code, after any sequence of calls.
C1_StreamsRestored ==
  \A t \in Threads :
    (Returned(t) /\ mode[t] = "captured") =>
      /\ fdtab[STDOUT_FILENO] = fdAtEntry[t][STDOUT_FILENO]
      /\ fdtab[STDERR_FILENO] = fdAtEntry[t][STDERR_FILENO]

\* C2: a captured invocation with a buffer of N >= 1 bytes never stores a byte
\* at an index >= N, and when it returns the buffer holds a null at an index
\* <= N-1, so the string is shorter than N, however much the tool printed.
C2_BufferBounded ==
  \A t \in Threads :
    /\ ~oob[t]
    /\ (Returned(t) /\ mode[t] \in {"captured", "nopipe"}) =>
         /\ StrLen(output_buffer[t]) >= 0
         /\ StrLen(output_buffer[t]) <= output_buffer_size[t] - 1
    /\ (Returned(t) /\ mode[t] = "captured") =>
         StrLen(output_buffer[t]) = total_read[t]

\* A captured call returned with its buffer filled to N-1 bytes after the tool
\* printed more than that.
C2_Witness ==
  \E t \in Threads :
    /\ Returned(t) /\ mode[t] = "captured"
    /\ output_buffer_size[t] >= 2
    /\ StrLen(output_buffer[t]) = output_buffer_size[t] - 1
    /\ MaxOut - toolOut[t] > output_buffer_size[t] - 1

\* C3: a captured invocation never blocks forever between redirecting and
\* returning, whatever amount of text the tool prints: the only thread is
\* never blocked in fflush on a full pipe nor in read on an empty one.
C3_NeverBlocks ==
  \A t \in Threads : ~BlockedInFlush(t) /\ ~BlockedInDrain(t)

\* C4: on every path of the four operations the entry point the operation
\* selects is entered exactly once with the caller's arguments, and the
\* operation returns the value the entry point returned.
C4_PassThrough ==
  \A t \in Threads :
    /\ Cardinality(MainEvents(trace[t])) <= 1
    /\ \A i \in MainEvents(trace[t]) :
         trace[t][i] = Documented(op[t]) /\ mainArgs[t] = argv[t]
    /\ Returned(t) =>
         /\ Cardinality(MainEvents(trace[t])) = 1
         /\ ret[t] = mainRet[t]

\* The captured probe operation returned a nonzero exit code.
C4_Witness ==
  \E t \in Threads :
    /\ Returned(t) /\ mode[t] = "captured"
    /\ op[t] = "ffprobe_execute_with_output"
    /\ argv[t] = "argsB"
    /\ ret[t] = 1

\* C5: when dup fails in a captured invocation, the call returns with
\* descriptors 1 and 2 on their original targets and with no descriptor left
\* open: the descriptor table is the one the call was entered with.
C5_DupFailureRecovered ==
  \A t \in Threads :
    (Returned(t) /\ mode[t] = "captured"
       /\ (stdout_fd[t] = -1 \/ stderr_fd[t] = -1)) =>
      fdtab = fdAtEntry[t]

\* C6: when pipe fails, the operation runs the uncaptured sequence (init-once,
\* reset, program name, entry point) exactly once, never changes a descriptor,
\* returns the entry point's exit code and leaves the empty string in the
\* caller's buffer.
C6_PipeFailureFallsBack ==
  \A t \in Threads :
    mode[t] = "nopipe" =>
      /\ fdtab = fdAtEntry[t]
      /\ pipefd[t] = <<-1, -1>>
      /\ Returned(t) =>
           /\ SelectSeq(trace[t], LAMBDA e : e # "install")
                = <<"setup", "reset", "name", Documented(op[t])>>
           /\ ret[t] = mainRet[t]
           /\ StrLen(output_buffer[t]) = 0

\* A call whose pipe could not be created returned a nonzero exit code.
C6_Witness ==
  \E t \in Threads :
    Returned(t) /\ mode[t] = "nopipe" /\ ret[t] = 1 /\ output_buffer_size[t] = MaxBuf

\* C7: two threads are never both between redirecting and restoring, and when
\* both have returned descriptors 1 and 2 refer to their original targets.
C7_OneCaptureAtATime ==
  /\ \A t1, t2 \in Threads : t1 # t2 => ~(Redirected(t1) /\ Redirected(t2))
  /\ (\A t \in Threads : pc[t] = "idle") =>
       /\ fdtab[STDOUT_FILENO] = File(STDOUT_FILENO)
       /\ fdtab[STDERR_FILENO] = File(STDERR_FILENO)

\* C8: in every operation ffmpeg_reset is called exactly once, before the
\* entry point is entered and never after; N invocations make N resets.
C8_ResetBeforeMain ==
  /\ \A t \in Threads :
       /\ Count(trace[t], "reset") <= 1
       /\ \A i \in MainEvents(trace[t]) :
            /\ \E j \in 1 .. (i - 1) : trace[t][j] = "reset"
            /\ \A j \in (i + 1) .. Len(trace[t]) : trace[t][j] # "reset"
       /\ Returned(t) => Count(trace[t], "reset") = 1
  /\ nMain <= nReset /\ nReset <= nInvoke
  /\ (\A t \in Threads : pc[t] = "idle") => (nReset = nInvoke /\ nMain = nInvoke)

\* Two invocations have returned.
C8_Witness ==
  /\ \A t \in Threads : pc[t] = "idle"
  /\ nInvoke = 2 /\ nReset = 2 /\ nMain = 2

\* C9: over a serialized sequence of invocations av_log_set_callback is called
\* exactly once, in the first invocation and before its entry point is
\* entered; later calls of the initialize step leave the flag set and install
\* nothing.
C9_InstalledOnce ==
  /\ nInstall <= 1
  /\ (g_logging_initialized = 1) <=> (nInstall = 1)
  /\ (nInstall = 1) <=> (av_callback = "ffmpeg_log_callback")
  /\ nMain >= 1 => nInstall = 1
  /\ \A t \in Threads :
       \A i \in 1 .. Len(trace[t]) :
         trace[t][i] = "install" =>
           /\ callNo[t] = 1
           /\ \A j \in MainEvents(trace[t]) : i < j

\* The second invocation ran the initialize step and installed nothing.
C9_Witness ==
  \E t \in Threads :
    /\ Returned(t) /\ callNo[t] = 2
    /\ Count(trace[t], "setup") = 1 /\ Count(trace[t], "install") = 0
    /\ nInstall = 1

\* C10: every call the log callback makes to the listener carries a level
\* that is at most the threshold set with ffmpeg_set_log_level.
C10_LevelWithinThreshold ==
  \A t \in Threads :
    pc[t] = "listener" => listenerCall[t].level <= listenerCall[t].threshold

\* C11: while calls are serialized, the listener a record is forwarded to is
\* the argument of the most recent ffmpeg_set_swift_logger call: a replaced
\* listener is never invoked again, and after a registration of NULL (or
\* before any registration) no listener is invoked and the record is dropped.
C11_OnlyLatestListener ==
  \A t \in Threads :
    /\ pc[t] = "listener" =>
         /\ listenerCall[t].fn = registered
         /\ listenerCall[t].fn \in Listeners
    /\ pc[t] = "cb_call" => registered # NULL
    /\ registered = NULL => listenerCall[t] = NoCall

\* A record is forwarded to L2, the latest registration, in the second
\* invocation of a run.
C11_Witness ==
  \E t \in Threads :
    /\ pc[t] = "listener" /\ callNo[t] = 2
    /\ listenerCall[t].fn = "L2" /\ registered = "L2"

\* C12: when the second of two sequential captured invocations returns, its
\* buffer holds, from index 0 up to the null, only bytes the tool printed
\* during that second call: no byte of the first call, stored or discarded.
C12_NoLeakBetweenCalls ==
  \A t \in Threads :
    (Returned(t) /\ mode[t] = "captured") =>
      \A i \in 0 .. (StrLen(output_buffer[t]) - 1) :
        CallOf(output_buffer[t][i]) = callNo[t]

\* The position in the tool run's write order at which byte b was printed,
\* counted from 0, for a run that prints MaxOut bytes at most in an environment
\* that tells the bytes of a run apart.
SeqNo(b) == MaxOut - ((b \div 10) % 10)

\* C13: when a captured invocation with a buffer of N bytes returns after the
\* tool printed the byte sequence S to stdout and stderr, the buffer holds the
\* first min(|S|, N-1) bytes of S in the order the tool printed them, then a
\* null, and no byte of S has reached a real stream.
C13_BufferIsPrefixOfOutput ==
  \A t \in Threads :
    (Returned(t) /\ mode[t] = "captured") =>
      /\ StrLen(output_buffer[t])
           = Min({MaxOut - toolOut[t], output_buffer_size[t] - 1})
      /\ \A i \in 0 .. (StrLen(output_buffer[t]) - 1) :
           /\ CallOf(output_buffer[t][i]) = callNo[t]
           /\ SeqNo(output_buffer[t][i]) = i
      /\ \A b \in realOut : CallOf(b) # callNo[t]

\* Thread t runs, or has returned from, a captured operation that was given a
\* null pointer or a capacity of 0.
CalledWithoutBuffer(t) ==
  /\ mode[t] # "none"
  /\ op[t] \in CapturedOps
  /\ (bufNull[t] \/ output_buffer_size[t] = 0)

\* The bytes that are in the stdio buffer of stdout.
Buffered == {stdoutBuf[i] : i \in 1 .. Len(stdoutBuf)}

\* C14: a captured operation called with a null buffer or with capacity 0
\* creates no pipe, leaves the descriptor table as it was at every point of the
\* call, writes nothing to the buffer, runs the uncaptured sequence once and
\* returns the entry point's exit code; when descriptors 1 and 2 were the real
\* streams, what the tool printed is on a real stream or still in stdio, and
\* no pipe holds a byte.
C14_NoBufferIsUncaptured ==
  \A t \in Threads :
    CalledWithoutBuffer(t) =>
      /\ fdtab = fdAtEntry[t]
      /\ pipefd[t] = <<-1, -1>>
      /\ ~oob[t]
      /\ output_buffer[t] = IF bufNull[t] THEN <<>>
                            ELSE [i \in 0 .. (output_buffer_size[t] - 1) |-> Junk]
      /\ \A i \in 1 .. Len(trace[t]) :
           trace[t][i] \in {"setup", "install", "reset", "name", Documented(op[t])}
      /\ Returned(t) =>
           /\ SelectSeq(trace[t], LAMBDA e : e # "install")
                = <<"setup", "reset", "name", Documented(op[t])>>
           /\ ret[t] = mainRet[t]
           /\ (fdtab[STDOUT_FILENO].kind = "file" /\ fdtab[STDERR_FILENO].kind = "file") =>
                /\ toolOut[t] < MaxOut =>
                     \E b \in realOut \cup Buffered : CallOf(b) = callNo[t]
                /\ \A p \in DOMAIN pipebuf : pipebuf[p] = <<>>

\* A captured operation called with a buffer of capacity 0 has returned after
\* its tool printed MaxOut bytes, one at least to a real stream.
C14_Witness ==
  \E t \in Threads :
    /\ Returned(t) /\ CalledWithoutBuffer(t)
    /\ ~bufNull[t] /\ output_buffer_size[t] = 0
    /\ toolOut[t] = 0
    /\ \E b \in realOut : CallOf(b) = callNo[t]

\* C15: after ffprobe_execute, called as the header declares it with a
\* non-null buffer of capacity >= 1, the buffer holds a null-terminated string
\* made of bytes the probe tool printed during the call.
C15_ProbeFillsBuffer ==
  \A t \in Threads :
    (Returned(t) /\ op[t] = "ffprobe_execute"
       /\ ~bufNull[t] /\ output_buffer_size[t] >= 1) =>
      /\ StrLen(output_buffer[t]) >= 0
      /\ \A i \in 0 .. (StrLen(output_buffer[t]) - 1) :
           CallOf(output_buffer[t][i]) = callNo[t]

\* Thread t, both of whose dup calls succeeded, has restored descriptors 1 and
\* 2 and has not yet returned.
RestoredAfterCapture(t) ==
  /\ mode[t] = "captured"
  /\ stdout_fd[t] # -1 /\ stderr_fd[t] # -1
  /\ pc[t] \in {"close_out", "close_err", "drain", "close_r"}

\* C16: in a captured invocation whose dups succeeded, once stdout and stderr
\* are restored no open descriptor refers to the write end of the call's pipe,
\* so read never blocks on the empty pipe: the loop has ended only after a read
\* that returned 0 or an error, or with N-1 bytes stored.
C16_DrainCannotBlock ==
  \A t \in Threads :
    RestoredAfterCapture(t) =>
      /\ ~HasWriter(fdtab, callNo[t])
      /\ ~IsOpen(fdtab, pipefd[t][2])
      /\ ~BlockedInDrain(t)
      /\ pc[t] = "close_r" =>
           \/ total_read[t] = output_buffer_size[t] - 1
           \/ pipebuf[callNo[t]] = <<>>

\* The read loop of a call whose tool printed nothing stands before a read on
\* the empty pipe, with room left in the buffer.
C16_Witness ==
  \E t \in Threads :
    /\ RestoredAfterCapture(t) /\ pc[t] = "drain"
    /\ DrainMore(output_buffer_size[t], total_read[t])
    /\ fdtab[pipefd[t][1]] = ReadEnd(callNo[t])
    /\ pipebuf[callNo[t]] = <<>>
    /\ toolOut[t] = MaxOut

\* The descriptors that are open in table tab.
OpenFds(tab) == {fd \in DOMAIN tab : tab[fd] # Closed}

\* C17: when a captured invocation returns, the two saved duplicates and both
\* ends of its pipe are closed: the same descriptors are open as when the call
\* was entered, and none of them refers to an end of a pipe that it did not
\* refer to at entry; this holds after any number of sequential calls.
C17_NoDescriptorLeak ==
  \A t \in Threads :
    (Returned(t) /\ mode[t] = "captured") =>
      /\ OpenFds(fdtab) = OpenFds(fdAtEntry[t])
      /\ \A fd \in OpenFds(fdtab) :
           fdtab[fd].kind \in {"r", "w"} => fdtab[fd] = fdAtEntry[t][fd]

\* The tool of thread t is running: its entry point was entered and has not
\* returned.
InsideMain(t) == pc[t] \in {"main", "cb_check", "cb_call", "listener"}

\* C18: while calls are serialized, the program name is "ffmpeg" when
\* ffmpeg_main is entered and "ffprobe" when ffprobe_main is entered, on the
\* captured, the uncaptured and the fallback paths and after any sequence of
\* earlier invocations; the name is set after the reset and before the entry.
C18_NameMatchesEntryPoint ==
  \A t \in Threads :
    /\ \A i \in MainEvents(trace[t]) :
         \E j \in 1 .. (i - 1) :
           /\ trace[t][j] = "name"
           /\ \E k \in 1 .. (j - 1) : trace[t][k] = "reset"
    /\ InsideMain(t) =>
         /\ trace[t][Len(trace[t])] \in {"ffmpeg_main", "ffprobe_main"}
         /\ trace[t][Len(trace[t])] = "ffmpeg_main" => program_name = "ffmpeg"
         /\ trace[t][Len(trace[t])] = "ffprobe_main" => program_name = "ffprobe"

\* The second invocation of a run entered ffprobe_main on the captured path.
C18_Witness ==
  \E t \in Threads :
    /\ InsideMain(t) /\ callNo[t] = 2
    /\ op[t] = "ffprobe_execute_with_output" /\ mode[t] = "captured"
    /\ trace[t][Len(trace[t])] = "ffprobe_main"
    /\ program_name = "ffprobe"

\* C19: the last level the wrapper passed to av_log_set_level equals
\* g_log_level as soon as ffmpeg_set_log_level was called or the one-time setup
\* ran: the setup installs the level set most recently (32 when none was set),
\* and no later invocation replaces a level set afterwards.
C19_InstalledLevelIsThreshold ==
  /\ av_level # -1 => av_level = g_log_level
  /\ g_logging_initialized = 1 => av_level = g_log_level
  /\ g_log_level # DefaultLogLevel => av_level = g_log_level

\* The second invocation has passed the setup step, which installed nothing,
\* with a level other than the default in force.
C19_Witness ==
  \E t \in Threads :
    /\ pc[t] = "reset" /\ callNo[t] = 2
    /\ Count(trace[t], "install") = 0
    /\ g_logging_initialized = 1
    /\ g_log_level = 16 /\ av_level = 16

\* C20: with a setter running on one thread while another thread is inside
\* ffmpeg_log_callback, every call the callback makes goes to a non-null
\* listener, the one that was registered when the callback tested the global;
\* no interleaving calls a null function pointer.
C20_NeverCallsNull ==
  \A t \in Threads :
    pc[t] = "listener" =>
      /\ listenerCall[t].fn # NULL
      /\ listenerCall[t].fn = cbFn[t]

====
